---- MODULE Spec2Model ----
(***************************************************************************)
(* Model of the EPG merge engine of src/merge.py (class EPGGenerator).     *)
(*                                                                         *)
(* Python strings are sequences of one-character strings.  A CJK code      *)
(* point is written as the token "Uxxxx" (its code point in hex), so that  *)
(* the module stays ASCII: "U7231" is the character U+7231.                *)
(***************************************************************************)
EXTENDS Integers, Sequences, FiniteSets, TLC

(***************************************************************************)
(* Characters                                                              *)
(***************************************************************************)
Digit == {"0", "1", "2", "3", "4", "5", "6", "7", "8", "9"}

LowerSeq == << "a", "b", "c", "d", "e", "f", "g", "h", "i", "j", "k", "l", "m",
               "n", "o", "p", "q", "r", "s", "t", "u", "v", "w", "x", "y", "z" >>

UpperSeq == << "A", "B", "C", "D", "E", "F", "G", "H", "I", "J", "K", "L", "M",
               "N", "O", "P", "Q", "R", "S", "T", "U", "V", "W", "X", "Y", "Z" >>

LowerCase == { LowerSeq[i] : i \in 1..26 }

UpperCase == { UpperSeq[i] : i \in 1..26 }

CJK ==
    {"U4E1C", "U4E9A", "U4FC4", "U519C", "U5217", "U52A0", "U5357", "U536B", "U5370", "U56FD", "U5761", "U5C3C", "U5C71", "U5DF4", "U5EA6", "U5F71", "U5FB7", "U6559", "U6587", "U65AF", "U65B0", "U65C5", "U65E5", "U672C", "U6765", "U6B27", "U6CD5", "U6CF0", "U6D32", "U6DD8", "U6FB3", "U7231", "U7535", "U79D1", "U7CFB", "U7EA7", "U7F57", "U7F8E", "U80B2", "U82F1", "U897F", "U89C6", "U8D85", "U8D8A", "U95FB", "U975E", "U97E9", "U9A6C", "U9C81", "U9F50"}


Whitespace == {" "}

\* the characters normalize_channel_name keeps: CJK U+4E00..U+9FFF, 0-9, a-z, A-Z
KeptChar == CJK \cup Digit \cup LowerCase \cup UpperCase

(***************************************************************************)
(* String helpers (str methods used by the program)                        *)
(***************************************************************************)
\* sub in s
Contains(s, sub) ==
    \E i \in 0..(Len(s) - Len(sub)) : SubSeq(s, i + 1, i + Len(sub)) = sub

\* s.startswith(p)
StartsWith(s, p) == Len(s) >= Len(p) /\ SubSeq(s, 1, Len(p)) = p

\* s.replace(old, new): every non-overlapping occurrence, left to right
RECURSIVE Replace(_, _, _)
Replace(s, old, new) ==
    IF Len(s) < Len(old) THEN s
    ELSE IF StartsWith(s, old)
         THEN new \o Replace(SubSeq(s, Len(old) + 1, Len(s)), old, new)
         ELSE <<Head(s)>> \o Replace(Tail(s), old, new)

RECURSIVE LStrip(_)
LStrip(s) == IF s # <<>> /\ Head(s) \in Whitespace THEN LStrip(Tail(s)) ELSE s

RECURSIVE RStrip(_)
RStrip(s) ==
    IF s # <<>> /\ s[Len(s)] \in Whitespace
    THEN RStrip(SubSeq(s, 1, Len(s) - 1)) ELSE s

\* s.strip()
Strip(s) == RStrip(LStrip(s))

\* s.isdigit()
IsDigit(s) == s # <<>> /\ \A i \in 1..Len(s) : s[i] \in Digit

UpperChar(c) ==
    IF c \in LowerCase
    THEN UpperSeq[CHOOSE i \in 1..26 : LowerSeq[i] = c]
    ELSE c

\* s.upper()
Upper(s) == [i \in 1..Len(s) |-> UpperChar(s[i])]

(***************************************************************************)
(* Configuration tables                                                    *)
(***************************************************************************)
MAX_WORKERS == 3

COOL9_ID_MAPPING ==
    (<<"8", "9">> :> <<"U5C71", "U4E1C", "U536B", "U89C6">>) @@
    (<<"2", "2", "1">> :> <<"U5C71", "U4E1C", "U6559", "U80B2">>) @@
    (<<"3", "8", "1">> :> <<"U5C71", "U4E1C", "U65B0", "U95FB">>) @@
    (<<"3", "8", "2">> :> <<"U5C71", "U4E1C", "U519C", "U79D1">>) @@
    (<<"3", "8", "3">> :> <<"U5C71", "U4E1C", "U9F50", "U9C81">>) @@
    (<<"3", "8", "4">> :> <<"U5C71", "U4E1C", "U6587", "U65C5">>) @@
    (<<"1">> :> <<"C", "C", "T", "V", "1">>) @@
    (<<"2">> :> <<"C", "C", "T", "V", "2">>) @@
    (<<"3">> :> <<"C", "C", "T", "V", "3">>) @@
    (<<"4">> :> <<"C", "C", "T", "V", "4">>) @@
    (<<"5">> :> <<"C", "C", "T", "V", "5">>) @@
    (<<"6">> :> <<"C", "C", "T", "V", "6">>) @@
    (<<"7">> :> <<"C", "C", "T", "V", "7">>) @@
    (<<"8">> :> <<"C", "C", "T", "V", "8">>) @@
    (<<"9">> :> <<"C", "C", "T", "V", "9">>) @@
    (<<"1", "0">> :> <<"C", "C", "T", "V", "1", "0">>)

FOREIGN_KEYWORDS ==
    << <<"B", "B", "C">>,
       <<"C", "N", "N">>,
       <<"N", "B", "C">>,
       <<"F", "O", "X">>,
       <<"H", "B", "O">>,
       <<"N", "e", "t", "f", "l", "i", "x">>,
       <<"D", "i", "s", "n", "e", "y">>,
       <<"U6B27", "U7F8E">>,
       <<"U7F8E", "U56FD">>,
       <<"U82F1", "U56FD">>,
       <<"U6CD5", "U56FD">>,
       <<"U5FB7", "U56FD">>,
       <<"U65E5", "U672C">>,
       <<"U97E9", "U56FD">>,
       <<"U6CF0", "U56FD">>,
       <<"U8D8A", "U5357">>,
       <<"U5370", "U5C3C">>,
       <<"U9A6C", "U6765", "U897F", "U4E9A">>,
       <<"U65B0", "U52A0", "U5761">>,
       <<"U6FB3", "U6D32">>,
       <<"U6B27", "U6D32">>,
       <<"U7F8E", "U6D32">>,
       <<"U975E", "U6D32">>,
       <<"U4FC4", "U7F57", "U65AF">>,
       <<"U5370", "U5EA6">>,
       <<"U5DF4", "U897F">> >>

DOMESTIC_SPECIAL ==
    << <<"p", "o", "p", "c">>,
       <<"U7231">>,
       <<"U6DD8">>,
       <<"n", "e", "w">>,
       <<"N", "E", "W">>,
       <<"P", "O", "P", "C">>,
       <<"U8D85", "U7EA7", "U7535", "U5F71">>,
       <<"I", "P", "T", "V">>,
       <<"n", "e", "w", "U7CFB", "U5217">>,
       <<"N", "e", "w", "T", "V">> >>

(***************************************************************************)
(* normalize_channel_name                                                  *)
(***************************************************************************)
StripPrefix(s) ==
    IF StartsWith(s, <<"I", "H", "O", "T">>) \/ StartsWith(s, <<"I", "P", "T", "V">>)
    THEN SubSeq(s, 5, Len(s))
    ELSE s

normalize_channel_name(name) ==
    LET kept == SelectSeq(name, LAMBDA c : c \in KeptChar)
        r1   == Replace(kept, <<"n", "e", "w">>, <<"N", "E", "W">>)
        r2   == Replace(r1, <<"n", "e", "w", "t", "v">>, <<"N", "E", "W", "T", "V">>)
    IN  Strip(StripPrefix(r2))

(***************************************************************************)
(* Bounds and the feed documents the runs are drawn from                   *)
(***************************************************************************)
\* greatest number of configured sources in a run
MaxFeeds == 2

\* <channel id="..."> with the text nodes of its display-name children
Ch(id, names) == [id |-> id, names |-> names]

\* a start/stop attribute.  kind says how adjust_program_time reads it:
\*   "ok"         one space, a time part that strptime accepts
\*   "nospace"    empty or without a space: left alone
\*   "multispace" two or more spaces: the unpacking of split(' ') raises
\*   "short"      one space, a time part shorter than 14 characters (a time
\*                without seconds, say): left alone
\*   "unparsable" strptime raises; caught inside adjust_program_time
\* wall is the wall-clock value in hours, tz the declared offset in hours
Ts(kind, wall, tz) == [kind |-> kind, wall |-> wall, tz |-> tz]

\* <programme channel="..." start="..." stop="...">
Pr(channel, start, stop) == [channel |-> channel, start |-> start, stop |-> stop]

Doc(channels, programmes) ==
    [wellFormed |-> TRUE, channels |-> channels, programmes |-> programmes]

\* a document etree.fromstring rejects
MalformedDoc == [wellFormed |-> FALSE, channels |-> <<>>, programmes |-> <<>>]

nCCTV1 == <<"C", "C", "T", "V", "1">>

nCCTV1dash == <<"C", "C", "T", "V", "-", "1">>

DocA ==
    Doc(<< Ch(<<"1">>, <<nCCTV1>>) >>,
        << Pr(<<"1">>, Ts("ok", 10, 0), Ts("ok", 11, 0)),
           Pr(<<"1">>, Ts("ok", 11, 0), Ts("short", 12, 0)) >>)

DocC ==
    Doc(<< Ch(<<"a">>, << <<"Y">> >>),
           Ch(<<"a">>, << <<"X">> >>),
           Ch(<<"1", "1">>, << <<"U7231", "1">> >>) >>,
        << Pr(<<"a">>, Ts("ok", 1, 0), Ts("ok", 2, 0)),
           Pr(<<"1", "1">>, Ts("ok", 20, 8), Ts("ok", 23, 8)) >>)

DocD ==
    Doc(<< Ch(<<"b">>, << <<"Y">> >>),
           Ch(<<"c">>, << <<"-">> >>),
           Ch(<<"1">>, << <<"B", "B", "C">> >>),
           Ch(<<" ">>, << <<"Y">> >>),
           Ch(<<"e">>, << <<"X">> >>) >>,
        << Pr(<<"b">>, Ts("ok", 1, 0), Ts("ok", 2, 0)),
           Pr(<<"1">>, Ts("ok", 3, 0), Ts("ok", 4, 0)) >>)

DocE ==
    Doc(<< Ch(<<"1">>, <<nCCTV1dash>>),
           Ch(<<"1", "2">>, <<>>),
           Ch(<<"n">>, << <<"n", "e", "w", " ", "1">> >>) >>,
        << Pr(<<"1">>, Ts("ok", 5, 0), Ts("unparsable", 0, 0)),
           Pr(<<"1", "2", " ">>, Ts("ok", 6, 0), Ts("ok", 7, 0)),
           Pr(<<"N", "E", "W", "1">>, Ts("short", 0, 0), Ts("nospace", 0, 0)),
           Pr(<<"1">>, Ts("ok", 8, 0), Ts("multispace", 0, 0)),
           Pr(<<"1">>, Ts("ok", 9, 0), Ts("ok", 10, 0)) >>)

Docs == {DocA, DocC, DocD, DocE, MalformedDoc}

\* the source lists read_epg_sources can return
SourceLists == UNION { [1..n -> Docs] : n \in 1..MaxFeeds }

(***************************************************************************)
(* pre_fetch_program_channels: the body of the loop for one source         *)
(***************************************************************************)
FirstName(ch, dflt) == IF ch.names # <<>> THEN Strip(ch.names[1]) ELSE dflt

RECURSIVE ChannelIdToName(_, _)
ChannelIdToName(channels, map) ==
    IF channels = <<>> THEN map
    ELSE LET ch  == Head(channels)
             cid == Strip(ch.id)
         IN  ChannelIdToName(Tail(channels), (cid :> FirstName(ch, cid)) @@ map)

RECURSIVE PrefetchPrograms(_, _, _)
PrefetchPrograms(programs, idToName, pcm) ==
    IF programs = <<>> THEN pcm
    ELSE LET prog_cid == Strip(Head(programs).channel)
             hit      == IsDigit(prog_cid) /\ prog_cid \in DOMAIN idToName
             normalized_name == normalize_channel_name(idToName[prog_cid])
         IN  PrefetchPrograms(Tail(programs), idToName,
                 IF hit /\ normalized_name # <<>> /\ normalized_name \notin DOMAIN pcm
                 THEN pcm @@ (normalized_name :> prog_cid)
                 ELSE pcm)

PrefetchSource(doc, pcm) ==
    PrefetchPrograms(doc.programmes, ChannelIdToName(doc.channels, <<>>), pcm)

(***************************************************************************)
(* process_channels                                                        *)
(***************************************************************************)
IsForeign(channel_name) ==
    \E i \in 1..Len(FOREIGN_KEYWORDS) : Contains(channel_name, FOREIGN_KEYWORDS[i])

\* xml_tree.xpath('//programme[contains(@channel, "...")]')
ProgramsContaining(doc, frag) ==
    SelectSeq(doc.programmes, LAMBDA p : Contains(p.channel, frag))

\* lines 211-223: the pre-fetched id, else for a NEW name the channel of the
\* first matching programme of this tree, else the feed's own id
FirstGuess(doc, original_cid, normalized_name, pcm) ==
    LET byProgram ==
            ProgramsContaining(doc,
                SubSeq(normalized_name, 1, IF Len(normalized_name) < 4
                                           THEN Len(normalized_name) ELSE 4))
    IN  IF normalized_name \in DOMAIN pcm THEN pcm[normalized_name]
        ELSE IF Contains(normalized_name, <<"N", "E", "W", "T", "V">>)
                \/ Contains(normalized_name, <<"N", "E", "W">>)
             THEN IF byProgram # <<>> THEN Strip(byProgram[1].channel)
                  ELSE original_cid
             ELSE original_cid

\* ManualId without the second look at program_channel_map (lines 236-237)
ManualId_NoPrefetched(original_cid, channel_name, normalized_name, guess, pcm) ==
    IF original_cid \in DOMAIN COOL9_ID_MAPPING
    THEN COOL9_ID_MAPPING[original_cid]
    ELSE IF channel_name \in DOMAIN COOL9_ID_MAPPING
         THEN COOL9_ID_MAPPING[channel_name]
         ELSE guess

\* lines 229-237: the manual table, then the pre-fetched id for a non-digit id
ManualId(original_cid, channel_name, normalized_name, guess, pcm) ==
    LET manual ==
            IF original_cid \in DOMAIN COOL9_ID_MAPPING
            THEN COOL9_ID_MAPPING[original_cid]
            ELSE IF channel_name \in DOMAIN COOL9_ID_MAPPING
                 THEN COOL9_ID_MAPPING[channel_name]
                 ELSE guess
    IN  IF ~IsDigit(manual) /\ normalized_name \in DOMAIN pcm
        THEN pcm[normalized_name]
        ELSE manual

\* ResolveId without the lookup of the name in name_to_final_id
ResolveId_NoIndex(doc, original_cid, channel_name, normalized_name, n2f, pcm) ==
    ManualId(original_cid, channel_name, normalized_name,
             FirstGuess(doc, original_cid, normalized_name, pcm), pcm)

\* the id chosen before the duplicate test (lines 210-237)
ResolveId(doc, original_cid, channel_name, normalized_name, n2f, pcm) ==
    IF normalized_name \in DOMAIN n2f THEN n2f[normalized_name]
    ELSE ManualId(original_cid, channel_name, normalized_name,
                  FirstGuess(doc, original_cid, normalized_name, pcm), pcm)

\* IsDuplicate without the test of channel_ids
IsDuplicate_NoSetTest(final_cid, ids) == final_cid = <<>>

\* line 239
IsDuplicate(final_cid, ids) == final_cid \in ids \/ final_cid = <<>>

\* one iteration of the loop over the channels; st holds the fields the loop
\* writes, resolved is the record of every id the loop resolved
ProcessChannel(st, doc, src, k, pcm) ==
    LET ch              == doc.channels[k]
        original_cid    == Strip(ch.id)
        channel_name    == FirstName(ch, original_cid)
        normalized_name == normalize_channel_name(channel_name)
        final_cid       == ResolveId(doc, original_cid, channel_name,
                                     normalized_name, st.name_to_final_id, pcm)
        seen            == [st EXCEPT !.resolved =
                               @ \cup {[src |-> src, idx |-> k,
                                        key |-> normalized_name, id |-> final_cid]}]
    IN  IF original_cid = <<>> THEN st
        ELSE IF normalized_name = <<>> THEN st
        ELSE IF IsForeign(channel_name) THEN st
        ELSE IF IsDuplicate(final_cid, st.channel_ids) THEN seen
        ELSE [seen EXCEPT
                !.channel_ids = @ \cup {final_cid},
                !.name_to_final_id = (normalized_name :> final_cid) @@ @,
                !.all_channels = Append(@, [id |-> final_cid, names |-> ch.names,
                                            orig |-> original_cid,
                                            src |-> src, idx |-> k])]

RECURSIVE ProcessChannelsFrom(_, _, _, _, _)
ProcessChannelsFrom(st, doc, src, k, pcm) ==
    IF k > Len(doc.channels) THEN st
    ELSE ProcessChannelsFrom(ProcessChannel(st, doc, src, k, pcm), doc, src, k + 1, pcm)

process_channels(st, doc, src, pcm) == ProcessChannelsFrom(st, doc, src, 1, pcm)

(***************************************************************************)
(* get_channel_name_by_id, adjust_program_time, process_programs           *)
(***************************************************************************)
RECURSIVE get_channel_name_by_id(_, _)
get_channel_name_by_id(channels, channel_id) ==
    IF channels = <<>> THEN <<>>
    ELSE IF Head(channels).id = channel_id /\ Head(channels).names # <<>>
         THEN Strip(Head(channels).names[1])
         ELSE get_channel_name_by_id(Tail(channels), channel_id)

\* the body of the loop over "start" and "stop" for one attribute
AdjustAttr(ts, hours) ==
    IF ts.kind = "ok" THEN [ts EXCEPT !.wall = @ + hours] ELSE ts

\* raised: the unpacking of time_str.split(' ') failed, outside the try
adjust_program_time(program, hours) ==
    [raised  |-> program.start.kind = "multispace" \/ program.stop.kind = "multispace",
     program |-> [program EXCEPT !.start = AdjustAttr(@, hours),
                                 !.stop  = AdjustAttr(@, hours)]]

is_ai_series(channel_name) ==
    Contains(channel_name, <<"U7231">>)
        \/ Contains(Upper(channel_name), <<"i", "H", "O", "T">>)

\* one iteration of the loop over the programmes.  acc.raised stops the loop:
\* the exception leaves process_programs
ProcessProgram(acc, doc, src, k, channel_ids, all_channels) ==
    LET program      == doc.programmes[k]
        prog_cid     == Strip(program.channel)
        channel_name == get_channel_name_by_id(all_channels, prog_cid)
        adjusted     == IF channel_name # <<>>
                        THEN adjust_program_time(program,
                                 IF is_ai_series(channel_name) THEN 24 ELSE 8)
                        ELSE [raised |-> FALSE, program |-> program]
        element      == [channel |-> adjusted.program.channel,
                         start   |-> adjusted.program.start,
                         stop    |-> adjusted.program.stop,
                         src     |-> src, idx |-> k]
    IN  IF IsDigit(prog_cid) /\ prog_cid \in channel_ids
        THEN IF adjusted.raised
             THEN [acc EXCEPT !.raised = TRUE]
             ELSE [acc EXCEPT !.all_programs = Append(@, element)]
        ELSE acc

RECURSIVE ProcessProgramsFrom(_, _, _, _, _, _)
ProcessProgramsFrom(acc, doc, src, k, channel_ids, all_channels) ==
    IF k > Len(doc.programmes) \/ acc.raised THEN acc
    ELSE ProcessProgramsFrom(
             ProcessProgram(acc, doc, src, k, channel_ids, all_channels),
             doc, src, k + 1, channel_ids, all_channels)

process_programs(programs, doc, src, channel_ids, all_channels) ==
    ProcessProgramsFrom([all_programs |-> programs, raised |-> FALSE],
                        doc, src, 1, channel_ids, all_channels)

(***************************************************************************)
(* State                                                                   *)
(***************************************************************************)
VARIABLES
    sources,              \* the list read_epg_sources returned
    pc,                   \* where the thread running fetch_all_sources is
    prefetch_i,           \* next source of the loop of pre_fetch_program_channels
    future,               \* state of the future of each source
    yielded,              \* futures as_completed has handed out
    cur,                  \* source whose tree is being processed, 0 if none
    channel_ids,
    all_channels,
    all_programs,
    name_to_final_id,
    program_channel_map,
    successful_sources,
    result,               \* return value of fetch_all_sources, "none" before
    prefetched,           \* sources whose pre-fetch succeeded
    foldLog,              \* <<source, stage>> of every tree processed, in order
    resolved,             \* every id process_channels resolved, with its key
    files,                \* what epg.xml and epg.gz of the output directory hold
    run_result,           \* what run returned: "True", "False", or "none" before
    rec                   \* one channel record put through process_channels alone

shared == <<channel_ids, all_channels, all_programs, name_to_final_id,
            program_channel_map>>

vars == <<sources, pc, prefetch_i, future, yielded, cur, channel_ids,
          all_channels, all_programs, name_to_final_id, program_channel_map,
          successful_sources, result, prefetched, foldLog, resolved,
          files, run_result, rec>>

\* what fetch_all_sources does not touch
aux == <<files, run_result, rec>>

N == Len(sources)

Init ==
    /\ sources \in SourceLists
    /\ pc = "prefetch"
    /\ prefetch_i = 1
    /\ future = [i \in DOMAIN sources |-> "none"]
    /\ yielded = {}
    /\ cur = 0
    /\ channel_ids = {}
    /\ all_channels = <<>>
    /\ all_programs = <<>>
    /\ name_to_final_id = <<>>
    /\ program_channel_map = <<>>
    /\ successful_sources = 0
    /\ result = "none"
    /\ prefetched = {}
    /\ foldLog = <<>>
    /\ resolved = {}
    /\ files = [xml |-> "prior", gz |-> "prior"]
    /\ run_result = "none"
    /\ rec = [stage |-> "none"]

(***************************************************************************)
(* fetch_all_sources, the thread that calls it                             *)
(***************************************************************************)
\* threads of the ThreadPoolExecutor
PoolSize == IF N < MAX_WORKERS THEN N ELSE MAX_WORKERS

\* one source of pre_fetch_program_channels; netOk is what the network does
Prefetch ==
    /\ pc = "prefetch"
    /\ prefetch_i <= N
    /\ \E netOk \in BOOLEAN :
         IF netOk /\ sources[prefetch_i].wellFormed
         THEN /\ program_channel_map' =
                     PrefetchSource(sources[prefetch_i], program_channel_map)
              /\ prefetched' = prefetched \cup {prefetch_i}
         ELSE UNCHANGED <<program_channel_map, prefetched>>
    /\ prefetch_i' = prefetch_i + 1
    /\ UNCHANGED <<sources, pc, future, yielded, cur, channel_ids, all_channels,
                   all_programs, name_to_final_id, successful_sources, result,
                   foldLog, resolved>>
    /\ UNCHANGED aux

\* executor.submit for every source: the pool has min(MAX_WORKERS, len(sources))
\* threads, which take the work items in the order they were submitted
Submit ==
    /\ pc = "prefetch"
    /\ prefetch_i > N
    /\ future' = [i \in DOMAIN sources |->
                     IF i <= PoolSize THEN "running" ELSE "queued"]
    /\ pc' = "collect"
    /\ UNCHANGED <<sources, prefetch_i, yielded, cur, shared, successful_sources,
                   result, prefetched, foldLog, resolved>>
    /\ UNCHANGED aux

\* as_completed hands out a finished future; future.result() is read
Collect(i) ==
    /\ pc = "collect"
    /\ i \notin yielded
    /\ future[i] \in {"ok", "failed"}
    /\ yielded' = yielded \cup {i}
    /\ IF future[i] = "ok"
       THEN cur' = i /\ pc' = "channels"
       ELSE UNCHANGED <<cur, pc>>
    /\ UNCHANGED <<sources, prefetch_i, future, shared, successful_sources,
                   result, prefetched, foldLog, resolved>>
    /\ UNCHANGED aux

FoldChannels ==
    /\ pc = "channels"
    /\ LET st == process_channels(
                     [channel_ids |-> channel_ids, all_channels |-> all_channels,
                      name_to_final_id |-> name_to_final_id, resolved |-> resolved],
                     sources[cur], cur, program_channel_map)
       IN  /\ channel_ids' = st.channel_ids
           /\ all_channels' = st.all_channels
           /\ name_to_final_id' = st.name_to_final_id
           /\ resolved' = st.resolved
    /\ foldLog' = Append(foldLog, <<cur, "channels">>)
    /\ pc' = "programs"
    /\ UNCHANGED <<sources, prefetch_i, future, yielded, cur, all_programs,
                   program_channel_map, successful_sources, result, prefetched>>
    /\ UNCHANGED aux

\* process_programs, then successful_sources += 1 unless it raised
FoldPrograms ==
    /\ pc = "programs"
    /\ LET acc == process_programs(all_programs, sources[cur], cur,
                                   channel_ids, all_channels)
       IN  /\ all_programs' = acc.all_programs
           /\ successful_sources' =
                  IF acc.raised THEN successful_sources ELSE successful_sources + 1
    /\ foldLog' = Append(foldLog, <<cur, "programs">>)
    /\ cur' = 0
    /\ pc' = "collect"
    /\ UNCHANGED <<sources, prefetch_i, future, yielded, channel_ids, all_channels,
                   name_to_final_id, program_channel_map, result, prefetched,
                   resolved>>
    /\ UNCHANGED aux

\* the loop over as_completed is exhausted
Finish ==
    /\ pc = "collect"
    /\ yielded = DOMAIN sources
    /\ result' = (successful_sources # 0)
    /\ pc' = "done"
    /\ UNCHANGED <<sources, prefetch_i, future, yielded, cur, shared,
                   successful_sources, prefetched, foldLog, resolved>>
    /\ UNCHANGED aux

(***************************************************************************)
(* fetch_single_source, run by the threads of the pool                     *)
(***************************************************************************)
\* the futures after the task of i returned outcome: the pool thread that ran
\* it takes the oldest queued work item
AfterReturn(i, outcome) ==
    LET queued == { j \in DOMAIN sources : future[j] = "queued" }
        oldest == CHOOSE j \in queued : \A k \in queued : j <= k
    IN  [j \in DOMAIN sources |->
            IF j = i THEN outcome
            ELSE IF queued # {} /\ j = oldest THEN "running"
            ELSE future[j]]

\* CompleteFetch with the channels of the tree processed by the pool thread
CompleteFetch_InWorker(i) ==
    /\ future[i] = "running"
    /\ \E netOk \in BOOLEAN :
         IF netOk /\ sources[i].wellFormed
         THEN /\ future' = AfterReturn(i, "ok")
              /\ LET st == process_channels(
                               [channel_ids |-> channel_ids,
                                all_channels |-> all_channels,
                                name_to_final_id |-> name_to_final_id,
                                resolved |-> resolved],
                               sources[i], i, program_channel_map)
                 IN  /\ channel_ids' = st.channel_ids
                     /\ all_channels' = st.all_channels
                     /\ name_to_final_id' = st.name_to_final_id
                     /\ resolved' = st.resolved
         ELSE /\ future' = AfterReturn(i, "failed")
              /\ UNCHANGED <<channel_ids, all_channels, name_to_final_id, resolved>>
    /\ UNCHANGED <<sources, pc, prefetch_i, yielded, cur, all_programs,
                   program_channel_map, successful_sources, result, prefetched,
                   foldLog>>
    /\ UNCHANGED aux

\* fetch_single_source returns (True, source, tree) or (False, source, None)
CompleteFetch(i) ==
    /\ future[i] = "running"
    /\ \E netOk \in BOOLEAN :
         future' = AfterReturn(i, IF netOk /\ sources[i].wellFormed
                                  THEN "ok" ELSE "failed")
    /\ UNCHANGED <<sources, pc, prefetch_i, yielded, cur, shared,
                   successful_sources, result, prefetched, foldLog, resolved>>
    /\ UNCHANGED aux

Next ==
    \/ Prefetch
    \/ Submit
    \/ \E i \in DOMAIN sources : Collect(i)
    \/ FoldChannels
    \/ FoldPrograms
    \/ Finish
    \/ \E i \in DOMAIN sources : CompleteFetch(i)

Spec == Init /\ [][Next]_vars

TypeOK ==
    /\ pc \in {"prefetch", "collect", "channels", "programs", "done", "aborted"}
    /\ \A i \in DOMAIN sources : future[i] \in {"none", "queued", "running", "ok", "failed"}

(***************************************************************************)
(* Reference runs: the same sources folded sequentially in a given order   *)
(***************************************************************************)
\* the sources whose tree was processed, in the order they were processed
RECURSIVE StageSources(_, _)
StageSources(log, stage) ==
    IF log = <<>> THEN <<>>
    ELSE IF Head(log)[2] = stage
         THEN <<Head(log)[1]>> \o StageSources(Tail(log), stage)
         ELSE StageSources(Tail(log), stage)

FoldOrder == StageSources(foldLog, "channels")

Folded == { FoldOrder[k] : k \in DOMAIN FoldOrder }

\* the members of S in declaration order
RECURSIVE Ascending(_, _)
Ascending(S, i) ==
    IF i > N THEN <<>>
    ELSE (IF i \in S THEN <<i>> ELSE <<>>) \o Ascending(S, i + 1)

\* the pre-fetch loop over the sources of pf
RECURSIVE RefPrefetch(_, _, _)
RefPrefetch(i, pf, pcm) ==
    IF i > N THEN pcm
    ELSE RefPrefetch(i + 1, pf,
             IF i \in pf /\ sources[i].wellFormed
             THEN PrefetchSource(sources[i], pcm) ELSE pcm)

EmptyOutcome ==
    [channel_ids |-> {}, all_channels |-> <<>>, name_to_final_id |-> <<>>,
     resolved |-> {}, all_programs |-> <<>>]

\* process_channels then process_programs for each source of order
RECURSIVE RefFold(_, _, _)
RefFold(out, order, pcm) ==
    IF order = <<>> THEN out
    ELSE LET i   == Head(order)
             st  == process_channels(
                        [channel_ids |-> out.channel_ids,
                         all_channels |-> out.all_channels,
                         name_to_final_id |-> out.name_to_final_id,
                         resolved |-> out.resolved],
                        sources[i], i, pcm)
             acc == process_programs(out.all_programs, sources[i], i,
                                     st.channel_ids, st.all_channels)
         IN  RefFold([channel_ids |-> st.channel_ids,
                      all_channels |-> st.all_channels,
                      name_to_final_id |-> st.name_to_final_id,
                      resolved |-> st.resolved,
                      all_programs |-> acc.all_programs],
                     Tail(order), pcm)

ChannelIdsOf(channels) == { channels[k].id : k \in DOMAIN channels }

\* the programmes of an accumulator that carry the id c, without their origin
ProgramsFor(programs, c) ==
    { [channel |-> programs[k].channel, start |-> programs[k].start,
       stop |-> programs[k].stop] :
      k \in { j \in DOMAIN programs : Strip(programs[j].channel) = c } }

\* the origins <<source, index>> of the programmes that carry the id c
OriginsFor(programs, c) ==
    { <<programs[k].src, programs[k].idx>> :
      k \in { j \in DOMAIN programs : Strip(programs[j].channel) = c } }

AllFetched == \A i \in DOMAIN sources : future[i] = "ok"

(***************************************************************************)
(* Claims                                                                  *)
(***************************************************************************)

\* C1: for a fixed declaration order and fixed feed contents, the canonical
\* ids (the ids of the output channel list and the name-to-id index left by
\* fetch_all_sources) are the same for every completion order of the fetches:
\* they are the ids of the run that completes in declaration order.
C1_IdsIndependentOfCompletionOrder ==
    pc = "done" =>
        LET ref == RefFold(EmptyOutcome, Ascending(Folded, 1), program_channel_map)
        IN  /\ name_to_final_id = ref.name_to_final_id
            /\ ChannelIdsOf(all_channels) = ChannelIdsOf(ref.all_channels)

\* the feed-local ids of source f whose channel record resolved to the id c
LocalIds(f, c) ==
    { Strip(sources[f].channels[r.idx].id) :
      r \in { x \in resolved : x.src = f /\ x.id = c } }

\* the programme list source f contributes for the canonical id c
Contribution(f, c) ==
    { k \in DOMAIN sources[f].programmes :
        Strip(sources[f].programmes[k].channel) \in LocalIds(f, c) }

\* the source whose list for c is the richest, the first declared on a tie
Richest(c) ==
    CHOOSE f \in Folded :
        \A g \in Folded :
            \/ Cardinality(Contribution(g, c)) < Cardinality(Contribution(f, c))
            \/ Cardinality(Contribution(g, c)) = Cardinality(Contribution(f, c)) /\ f <= g

Contributors(c) == { f \in Folded : Contribution(f, c) # {} }

\* C2: when two or more feeds contribute programme lists that resolve to the
\* same canonical id, the merged output holds for that id exactly the
\* programmes of the richest list (the first declared on a tie) and no
\* programme of any other feed's list.
C2_RichestWins ==
    pc = "done" =>
        \A c \in channel_ids :
            Cardinality(Contributors(c)) >= 2 =>
                OriginsFor(all_programs, c) =
                    { <<Richest(c), k>> : k \in Contribution(Richest(c), c) }

\* C3: in every reachable state all programmes held in all_programs for one
\* canonical id originate from one single feed.
C3_OneFeedPerId ==
    \A j, k \in DOMAIN all_programs :
        Strip(all_programs[j].channel) = Strip(all_programs[k].channel)
            => all_programs[j].src = all_programs[k].src

\* C4: after any sequence of feed folds, in any order, no two channels of the
\* output channel list carry the same canonical id.
C4_UniqueChannelIds ==
    \A j, k \in DOMAIN all_channels :
        all_channels[j].id = all_channels[k].id => j = k

\* a record whose resolved id was already taken was met, and the list still
\* holds two or more channels
C4_Witness ==
    /\ Len(all_channels) >= 2
    /\ \E r \in resolved :
          \A k \in DOMAIN all_channels :
              <<all_channels[k].src, all_channels[k].idx>> # <<r.src, r.idx>>

\* the key process_channels computed for a channel of the output list
KeyOf(c) == normalize_channel_name(FirstName([id |-> c.orig, names |-> c.names], c.orig))

\* C5: channel records whose display names normalize to the same non-empty
\* key resolve to the same canonical id, and the output holds at most one
\* channel for that key.
C5_OneIdPerKey ==
    /\ \A r1, r2 \in resolved : r1.key = r2.key => r1.id = r2.id
    /\ \A j, k \in DOMAIN all_channels :
          KeyOf(all_channels[j]) = KeyOf(all_channels[k]) => j = k

\* C6: a feed whose fetch or parse fails contributes nothing and does not
\* change what the other feeds contribute: the channels and the number of
\* programmes in the output are those of the run without the failing feeds
\* (same order of the others), and the run is not aborted.
C6_FailedFeedContributesNothing ==
    pc = "done" =>
        LET valid == { i \in DOMAIN sources : future[i] = "ok" }
            ref   == RefFold(EmptyOutcome, FoldOrder,
                             RefPrefetch(1, prefetched \cap valid, <<>>))
        IN  /\ all_channels = ref.all_channels
            /\ Len(all_programs) = Len(ref.all_programs)
            /\ result \in BOOLEAN

\* C7: the parsed outputs of the feeds are folded strictly in declaration
\* order: for feeds i < j that both succeed, feed i is folded before feed j.
C7_FoldInDeclarationOrder ==
    \A a, b \in DOMAIN foldLog : a < b => foldLog[a][1] <= foldLog[b][1]

\* C8: two runs over the same feed snapshots (every fetch succeeding, any
\* completion order) yield identical canonical-id assignments and identical
\* programme lists per canonical id: every run yields those of the run that
\* completes in declaration order.
C8_Idempotent ==
    (pc = "done" /\ AllFetched /\ prefetched = DOMAIN sources) =>
        LET ref == RefFold(EmptyOutcome, Ascending(Folded, 1),
                           RefPrefetch(1, DOMAIN sources, <<>>))
        IN  /\ name_to_final_id = ref.name_to_final_id
            /\ channel_ids = ref.channel_ids
            /\ \A c \in channel_ids \cup ref.channel_ids :
                  ProgramsFor(all_programs, c) = ProgramsFor(ref.all_programs, c)

StaysBound(f, g) == \A n \in DOMAIN f : n \in DOMAIN g /\ g[n] = f[n]

\* every channel of the output list is still bound under its key to the id it
\* was given when it was appended
BoundToFirstWriter ==
    \A k \in DOMAIN all_channels :
        /\ KeyOf(all_channels[k]) \in DOMAIN name_to_final_id
        /\ name_to_final_id[KeyOf(all_channels[k])] = all_channels[k].id

\* C9: the identity index is append-only, first writer wins: a name bound in
\* name_to_final_id or program_channel_map is never bound to another id and
\* never unbound by a later step, and the binding a channel wrote when it was
\* appended is the one the index still holds.
C9_IndexAppendOnly ==
    /\ [][ /\ StaysBound(name_to_final_id, name_to_final_id')
            /\ StaysBound(program_channel_map, program_channel_map') ]_vars
    /\ []BoundToFirstWriter

\* a record whose name was already bound by an earlier source was processed
C9_Witness ==
    \E r \in resolved :
        /\ r.key \in DOMAIN name_to_final_id
        /\ \E k \in DOMAIN all_channels :
              /\ KeyOf(all_channels[k]) = r.key
              /\ all_channels[k].src # r.src

\* every tree is processed whole: its channels, then its programmes
FoldBlocks ==
    \A k \in DOMAIN foldLog :
        IF k % 2 = 1
        THEN foldLog[k][2] = "channels"
        ELSE foldLog[k] = <<foldLog[k - 1][1], "programs">>

\* C10: the shared maps and accumulators are changed only by the single
\* folding thread, never by a fetch task (a step that changes them moves the
\* calling thread on and returns no future), and the fold of one feed
\* (channels, then programmes) is never interleaved with the fold of another.
C10_SingleWriter ==
    [][ /\ (shared' # shared => future' = future /\ <<pc, prefetch_i>>' # <<pc, prefetch_i>>)
        /\ FoldBlocks' ]_vars

\* a fetch task is running between the two stages of the fold of another feed
C10_Witness ==
    /\ pc = "programs"
    /\ all_channels # <<>>
    /\ \E i \in DOMAIN sources : i # cur /\ future[i] = "running"

(***************************************************************************)
(* Claims about the programmes of the output                               *)
(***************************************************************************)
\* the programme of the feed an element of all_programs was made from
InputOf(p) == sources[p.src].programmes[p.idx]

\* the absolute instant, in hours, a timestamp with a value denotes
Instant(ts) == ts.wall - ts.tz

Attrs == {"start", "stop"}

\* C14: for every output programme, a start/stop the program parsed denotes
\* in the output exactly the instant it denoted in the input, and all written
\* timestamps carry one and the same target offset.
C14_InstantPreserved ==
    /\ \A k \in DOMAIN all_programs : \A a \in Attrs :
          InputOf(all_programs[k])[a].kind = "ok"
              => Instant(all_programs[k][a]) = Instant(InputOf(all_programs[k])[a])
    /\ \A j, k \in DOMAIN all_programs : \A a, b \in Attrs :
          (InputOf(all_programs[j])[a].kind = "ok"
              /\ InputOf(all_programs[k])[b].kind = "ok")
              => all_programs[j][a].tz = all_programs[k][b].tz

\* a time string the program fails on: strptime or the unpacking raises
CannotParse(ts) == ts.kind \in {"unparsable", "multispace"}

\* C15: a programme whose start or stop cannot be parsed is not in the
\* output, and it is the only one dropped: right after the programmes of a
\* feed were processed, every other programme of the feed whose channel is a
\* digit id of channel_ids is in the output.
C15_OnlyUnparsableDropped ==
    /\ \A k \in DOMAIN all_programs :
          ~CannotParse(InputOf(all_programs[k]).start)
              /\ ~CannotParse(InputOf(all_programs[k]).stop)
    /\ (foldLog # <<>> /\ foldLog[Len(foldLog)][2] = "programs") =>
          LET f == foldLog[Len(foldLog)][1]
          IN  \A k \in DOMAIN sources[f].programmes :
                  LET q == sources[f].programmes[k]
                  IN  (/\ ~CannotParse(q.start) /\ ~CannotParse(q.stop)
                       /\ IsDigit(Strip(q.channel))
                       /\ Strip(q.channel) \in channel_ids)
                          => <<f, k>> \in OriginsFor(all_programs, Strip(q.channel))

\* C18: every programme of the output carries the id that a channel record
\* of its own feed with the programme's feed-local channel id resolved to; a
\* programme whose feed has no such record past the filter is not in the
\* output.
C18_AttachedToOwnChannel ==
    \A k \in DOMAIN all_programs :
        LET p == all_programs[k]
        IN  Strip(p.channel) \in
                { r.id : r \in { x \in resolved :
                      /\ x.src = p.src
                      /\ Strip(sources[x.src].channels[x.idx].id) = Strip(p.channel) } }

\* C19: channel_ids is exactly the set of ids of all_channels, every id bound
\* in name_to_final_id is in channel_ids, and the channel attribute of every
\* programme of all_programs is the id of exactly one channel of all_channels.
C19_AccumulatorsConsistent ==
    /\ channel_ids = ChannelIdsOf(all_channels)
    /\ \A n \in DOMAIN name_to_final_id : name_to_final_id[n] \in channel_ids
    /\ \A k \in DOMAIN all_programs :
          Cardinality({ j \in DOMAIN all_channels :
                          all_channels[j].id = all_programs[k].channel }) = 1

\* a timestamp that denotes a time, whether the program parses it or not
HasValue(ts) == ts.kind \in {"ok", "short"}

\* C20: the adjustment shifts start and stop of an output programme by the
\* same amount: its duration (stop minus start) is the duration of the input,
\* and it does not end before it starts if the input did not.
C20_DurationKept ==
    \A k \in DOMAIN all_programs :
        LET p  == all_programs[k]
            in == InputOf(p)
        IN  (HasValue(in.start) /\ HasValue(in.stop)) =>
                /\ Instant(p.stop) - Instant(p.start)
                       = Instant(in.stop) - Instant(in.start)
                /\ Instant(in.start) <= Instant(in.stop)
                       => Instant(p.start) <= Instant(p.stop)


(***************************************************************************)
(* run: read the configuration, fetch and merge, write the output files    *)
(***************************************************************************)
FileNames == {"xml", "gz"}

\* the old-file loop of save_epg_files: each os.remove either removes the
\* file or fails, and the failure is only logged
Cleaned(fs) ==
    { c \in [FileNames -> {"prior", "absent"}] :
          \A f \in FileNames : c[f] = "prior" => fs[f] = "prior" }

\* every way save_epg_files can end: the files it leaves and whether it raised
SaveOutcomes(fs) ==
    {[files |-> fs, raised |-> TRUE]}                            \* makedirs or listdir raises
    \cup UNION { { [files |-> c, raised |-> TRUE],               \* open of epg.xml raises
                   [files |-> [c EXCEPT !.xml = "partial"], raised |-> TRUE],
                   [files |-> [c EXCEPT !.xml = "new"], raised |-> TRUE],
                   [files |-> [xml |-> "new", gz |-> "partial"], raised |-> TRUE],
                   [files |-> [xml |-> "new", gz |-> "new"], raised |-> FALSE] }
                 : c \in Cleaned(fs) }

\* read_epg_sources raises: run logs the error and returns False
RunReadFails ==
    /\ pc = "prefetch"
    /\ prefetch_i = 1
    /\ run_result = "none"
    /\ run_result' = "False"
    /\ pc' = "aborted"
    /\ UNCHANGED <<sources, prefetch_i, future, yielded, cur, shared,
                   successful_sources, result, prefetched, foldLog, resolved,
                   files, rec>>

\* fetch_all_sources returned False: run returns False
RunFetchFailed ==
    /\ pc = "done"
    /\ run_result = "none"
    /\ result = FALSE
    /\ run_result' = "False"
    /\ UNCHANGED <<sources, pc, prefetch_i, future, yielded, cur, shared,
                   successful_sources, result, prefetched, foldLog, resolved,
                   files, rec>>

\* fetch_all_sources returned True: generate_final_xml, save_epg_files,
\* print_statistics, and the except clause of run
RunSave ==
    /\ pc = "done"
    /\ run_result = "none"
    /\ result = TRUE
    /\ \E o \in SaveOutcomes(files) :
           /\ files' = o.files
           /\ run_result' = IF o.raised THEN "False" ELSE "True"
    /\ UNCHANGED <<sources, pc, prefetch_i, future, yielded, cur, shared,
                   successful_sources, result, prefetched, foldLog, resolved,
                   rec>>

NextRun ==
    \/ Next
    \/ RunReadFails
    \/ RunFetchFailed
    \/ RunSave

SpecRun == Init /\ [][NextRun]_vars

(***************************************************************************)
(* Claims about run                                                        *)
(***************************************************************************)
\* C11: a run that reports failure leaves the output files as they were
\* before the run, or holding an explicit empty placeholder; it never
\* leaves them absent or partly written.
C11_FailureLeavesOutputIntact ==
    run_result = "False" =>
        \A f \in FileNames : files[f] \in {"prior", "placeholder"}

\* the merge result has no channel or no programme
EmptyMerge == all_channels = <<>> \/ all_programs = <<>>

\* no feed was fetched, parsed and folded without an exception
EveryFeedFailed == successful_sources = 0

\* C12: run reports failure exactly when the merge result is empty or every
\* feed failed: an empty result is reported as failure, and a failure is
\* reported only for an empty result or when every feed failed.
C12_FailureIffEmpty ==
    run_result # "none" =>
        (run_result = "False" <=> (EmptyMerge \/ EveryFeedFailed))


(***************************************************************************)
(* process_channels on a tree with a single channel record                 *)
(***************************************************************************)
MaxNameTokens == 2

\* the pieces display names are built from
NameTokens ==
    << <<"B", "B", "C">>,
       <<"N", "E", "W", "T", "V">>,
       <<"n", "e", "w", "t", "v">>,
       <<"-", "4", "K">>,
       <<" ", "4", "k">>,
       <<"-">>,
       <<"1">> >>

RECURSIVE Concat(_)
Concat(ts) == IF ts = <<>> THEN <<>> ELSE NameTokens[Head(ts)] \o Concat(Tail(ts))

\* the text of the first display-name node
Names ==
    { Concat(ts) : ts \in UNION { [1..n -> DOMAIN NameTokens] : n \in 0..MaxNameTokens } }

\* the id attribute of the record: one the manual table knows, one it does not
RecordIds == { <<"1">>, <<"a">> }

\* ids bound by earlier records and by the pre-fetch
IdX == <<"7">>
IdY == <<"8">>
IdP == <<"9">>

\* the tree: one channel, with a programme of channel NEWTV or none.  A
\* display-name element without text has no text node.
RecDoc(id, name, hasProg) ==
    Doc(<<Ch(id, IF name = <<>> THEN <<>> ELSE <<name>>)>>,
        IF hasProg
        THEN <<Pr(<<"N", "E", "W", "T", "V">>, Ts("ok", 1, 8), Ts("ok", 2, 8))>>
        ELSE <<>>)

\* the key process_channels computes for the record
RecKey(id, name) ==
    normalize_channel_name(FirstName(RecDoc(id, name, FALSE).channels[1], Strip(id)))

\* name_to_final_id when the record is met: the key bound or not, the text
\* of the id bound as the key of another channel or not
RecIndex(id, key, inIndex, lBound) ==
    (IF inIndex /\ key # <<>> THEN key :> IdX ELSE <<>>)
    @@ (IF lBound THEN Strip(id) :> IdY ELSE <<>>)

RecPrefetched(key, inPcm) == IF inPcm /\ key # <<>> THEN key :> IdP ELSE <<>>

RecState(n2f) ==
    [channel_ids      |-> { n2f[k] : k \in DOMAIN n2f },
     all_channels     |-> <<>>,
     name_to_final_id |-> n2f,
     resolved         |-> {}]

\* the states process_channels can meet the record (id, name) in
RecordsOf(id, name) ==
    LET key == RecKey(id, name)
    IN  { [stage |-> "input", id |-> id, name |-> name,
           doc |-> RecDoc(id, name, hasProg),
           n2f |-> RecIndex(id, key, inIndex, lBound),
           pcm |-> RecPrefetched(key, inPcm),
           channel_name |-> <<>>, key |-> <<>>,
           out |-> RecState(RecIndex(id, key, inIndex, lBound))]
          : hasProg \in BOOLEAN, inIndex \in BOOLEAN,
            lBound \in BOOLEAN, inPcm \in BOOLEAN }

RecordInputs == UNION { RecordsOf(id, name) : id \in RecordIds, name \in Names }

InitRecord ==
    /\ rec \in RecordInputs
    /\ sources = <<rec.doc>>
    /\ pc = "prefetch"
    /\ prefetch_i = 1
    /\ future = [i \in DOMAIN sources |-> "none"]
    /\ yielded = {}
    /\ cur = 0
    /\ channel_ids = {}
    /\ all_channels = <<>>
    /\ all_programs = <<>>
    /\ name_to_final_id = <<>>
    /\ program_channel_map = <<>>
    /\ successful_sources = 0
    /\ result = "none"
    /\ prefetched = {}
    /\ foldLog = <<>>
    /\ resolved = {}
    /\ files = [xml |-> "prior", gz |-> "prior"]
    /\ run_result = "none"

\* process_channels(xml_tree, source) on the tree of rec
ProcessRecord ==
    /\ rec.stage = "input"
    /\ rec' = [rec EXCEPT
                 !.stage = "done",
                 !.channel_name = FirstName(rec.doc.channels[1], Strip(rec.id)),
                 !.key = normalize_channel_name(
                             FirstName(rec.doc.channels[1], Strip(rec.id))),
                 !.out = process_channels(rec.out, rec.doc, 1, rec.pcm)]
    /\ UNCHANGED <<sources, pc, prefetch_i, future, yielded, cur, shared,
                   successful_sources, result, prefetched, foldLog, resolved,
                   files, run_result>>

NextRecord == ProcessRecord

SpecRecord == InitRecord /\ [][NextRecord]_vars


(***************************************************************************)
(* Claims about one channel record                                         *)
(***************************************************************************)
\* line 207: any(kw in channel_name for kw in DOMESTIC_SPECIAL)
MatchesDomestic(channel_name) ==
    \E i \in 1..Len(DOMESTIC_SPECIAL) : Contains(channel_name, DOMESTIC_SPECIAL[i])

\* the record got past the filters and an id was resolved for it
RecResolved == rec.stage = "done" /\ rec.out.resolved # {}

\* C13: a channel whose display name matches a foreign keyword is dropped,
\* unless the name also matches a domestic-protection keyword; then it is kept.
C13_DomesticProtected ==
    (rec.stage = "done" /\ rec.key # <<>> /\ IsForeign(rec.channel_name)) =>
        (RecResolved <=> MatchesDomestic(rec.channel_name))

\* C16: "newtv 4k" and "NEWTV-4K" normalize to the same key.
C16_VariantsShareKey ==
    (rec.stage = "done" /\ rec.name = <<"n", "e", "w", "t", "v", " ", "4", "k">>) =>
        rec.key = normalize_channel_name(<<"N", "E", "W", "T", "V", "-", "4", "K">>)

RecFinalId == (CHOOSE r \in rec.out.resolved : TRUE).id

RecL == Strip(rec.id)

\* an entry of the identity index, name_to_final_id before program_channel_map
Indexed(k) == k \in DOMAIN rec.n2f \/ k \in DOMAIN rec.pcm

IndexEntry(k) == IF k \in DOMAIN rec.n2f THEN rec.n2f[k] ELSE rec.pcm[k]

\* the manual table by raw id, then by name, else dflt
ManualOr(dflt) ==
    IF RecL \in DOMAIN COOL9_ID_MAPPING THEN COOL9_ID_MAPPING[RecL]
    ELSE IF rec.channel_name \in DOMAIN COOL9_ID_MAPPING
         THEN COOL9_ID_MAPPING[rec.channel_name]
         ELSE dflt

\* C17 as stated: an index entry for the normalized name, else one for L,
\* supplies the id; else the manual table (raw id, then name); else L.
C17_PrecedenceAsStated ==
    RecResolved =>
        RecFinalId = IF Indexed(rec.key) THEN IndexEntry(rec.key)
                     ELSE IF Indexed(RecL) THEN IndexEntry(RecL)
                     ELSE ManualOr(RecL)

\* the channel attribute of the tree's first programme whose channel contains
\* the first four characters of the key of a NEW name, else L
NewOrL ==
    LET frag  == SubSeq(rec.key, 1, IF Len(rec.key) < 4 THEN Len(rec.key) ELSE 4)
        progs == ProgramsContaining(rec.doc, frag)
    IN  IF Contains(rec.key, <<"N", "E", "W">>) /\ progs # <<>>
        THEN Strip(progs[1].channel)
        ELSE RecL

\* C17: the id comes from the entry of name_to_final_id for the normalized
\* name; else from the entry of program_channel_map for it; else from the
\* manual table (raw id, then name); else, for a NEW name with a matching
\* programme in the tree, from that programme's channel; else it is L.  No
\* entry is looked up under L.
C17_Precedence ==
    RecResolved =>
        RecFinalId = IF rec.key \in DOMAIN rec.n2f THEN rec.n2f[rec.key]
                     ELSE IF rec.key \in DOMAIN rec.pcm THEN rec.pcm[rec.key]
                     ELSE ManualOr(NewOrL)

\* a record whose name is pre-fetched and whose raw id is in the manual
\* table, and whose name is not bound yet: the pre-fetched id is taken
C17_Witness ==
    /\ RecResolved
    /\ rec.key \notin DOMAIN rec.n2f
    /\ rec.key \in DOMAIN rec.pcm
    /\ RecL \in DOMAIN COOL9_ID_MAPPING
    /\ rec.out.all_channels # <<>>

====
